---- MODULE Spec2Model ----
(***************************************************************************)
(* Model of the cash-faster loan categorisation pipeline (src/main.py,     *)
(* src/NBW.py).  Money is an integer number of thousandths of a dollar     *)
(* (1000 = $1.00).  The bounded inputs are whole dollars or multiples of   *)
(* 1/8 dollar, which binary floating point holds exactly, so that sums are *)
(* exact and Python's round(x, 2) is round-half-to-even on them.           *)
(***************************************************************************)
EXTENDS Integers, Sequences, FiniteSets, TLC

VARIABLES
    pc,                    \* position of the running function
    category_totals,       \* the mutable CategoryTotals mapping
    statement_analysis,    \* list of statement-analysis entries
    decision_metrics,      \* list of decision-metric entries
    i,                     \* index of the next element of the running loop
    rent_found,            \* the loop's Rent flag / latch
    living_expenses_total, \* running total of categorize_data
    sacc_results,          \* counterparty -> representative amount (ordered)
    sacc_totals,           \* counterparty -> repayment amount (ordered)
    calls,                 \* loan-calculator requests issued so far
    bank_accounts,         \* raw_data["illionBankAccount"]
    all_analyses,          \* accumulator of parse_statement_analysis
    transactions,          \* argument of get_top_recurring_transaction_amount
    all_outputs,           \* main's list of rendered outputs
    centrelink_from_statement, \* categorize_data's saved Centrelink value
    raw_data,              \* the document fetched for the current loan id
    saved_file,            \* content of all_loan_outputs.txt
    fetched,               \* loan ids whose document was fetched (history)
    transaction_groups,    \* groups calculate_sacc_loans has yet to scan
    counterparty,          \* third_party of the group being scanned
    result                 \* value returned by the running function

vars == <<pc, category_totals, statement_analysis, decision_metrics, i,
          rent_found, living_expenses_total, sacc_results, sacc_totals, calls,
          bank_accounts, all_analyses, transactions, all_outputs,
          centrelink_from_statement, raw_data, saved_file, fetched,
          transaction_groups, counterparty, result>>

None == [kind |-> "None"]

\* ------------------------------------------------------------------ numbers

\* Nearest integer to num/den (den > 0), ties to the even neighbour.
RoundHalfEven(num, den) ==
    LET q == num \div den
        r == num % den
    IN  IF 2 * r < den THEN q
        ELSE IF 2 * r > den THEN q + 1
        ELSE IF q % 2 = 0 THEN q ELSE q + 1

\* round(num/den, 2) on thousandths: the result is a multiple of 10.
Round2Frac(num, den) == 10 * RoundHalfEven(num, den * 10)

\* round(x, 2)
Round2(x) == Round2Frac(x, 1)

\* ------------------------------------------------------------ ordered dicts
\* A Python dict is a sequence of <<key, value>> pairs with distinct keys, in
\* insertion order.

DictKeys(d) == [k \in 1..Len(d) |-> d[k][1]]

DictHas(d, key) == \E k \in 1..Len(d) : d[k][1] = key

DictGet(d, key) == d[CHOOSE k \in 1..Len(d) : d[k][1] = key][2]

\* d[key] = val: an existing key keeps its place, a new one goes last.
DictSet(d, key, val) ==
    IF DictHas(d, key)
    THEN [k \in 1..Len(d) |-> IF d[k][1] = key THEN <<key, val>> ELSE d[k]]
    ELSE Append(d, <<key, val>>)

RECURSIVE SumValues(_)
\* sum(d.values())
SumValues(d) == IF d = <<>> THEN 0 ELSE d[1][2] + SumValues(Tail(d))

Scalar(v) == [kind |-> "float", v |-> v]
Dict(d) == [kind |-> "dict", d |-> d]

\* ----------------------------------------------------------- category maps

income_categories == <<"Wages", "Centrelink">>

expense_categories == <<"SACC", "Debt Collection">>

initialize_category_totals ==
    [k \in {"Wages", "Centrelink", "SACC", "Debt Collection", "Living Expenses"}
        |-> IF k = "SACC" THEN Scalar(0) ELSE 0]

\* --------------------------------------------------------- calculate_totals

RECURSIVE SumCategories(_, _)
SumCategories(ct, cats) ==
    IF cats = <<>> THEN 0 ELSE ct[cats[1]] + SumCategories(ct, Tail(cats))

\* category_totals.get(key, 0.0)
GetOrZero(ct, key) == IF key \in DOMAIN ct THEN ct[key] ELSE 0

calculate_totals_RentAsExpense(ct) ==
    LET total_income == Round2(SumCategories(ct, income_categories))
        total_sacc_loans ==
            IF ct["SACC"].kind = "dict" THEN SumValues(ct["SACC"].d) ELSE ct["SACC"].v
        total_expenses ==
            Round2(total_sacc_loans + GetOrZero(ct, "Debt Collection")
                   + GetOrZero(ct, "Living Expenses") + GetOrZero(ct, "Rent"))
    IN  <<total_income, total_expenses, Round2(total_income - total_expenses)>>

calculate_totals(ct) ==
    LET total_income == Round2(SumCategories(ct, income_categories))
        total_sacc_loans ==
            IF ct["SACC"].kind = "dict" THEN SumValues(ct["SACC"].d) ELSE ct["SACC"].v
        total_expenses ==
            Round2(total_sacc_loans + GetOrZero(ct, "Debt Collection")
                   + GetOrZero(ct, "Living Expenses"))
        surplus == Round2(total_income - total_expenses)
    IN  <<total_income, total_expenses, surplus>>

\* ------------------------------------------------------------- JSON values
\* A number, a string (a sequence of one-character strings), null, or an
\* absent key.

Num(v) == [kind |-> "num", v |-> v]
Str(chars) == [kind |-> "str", s |-> chars]
Null == [kind |-> "null"]
Missing == [kind |-> "missing"]

Abs(x) == IF x < 0 THEN -x ELSE x

Digits == {"0", "1", "2", "3", "4", "5", "6", "7", "8", "9"}

DigitVal(c) ==
    CASE c = "0" -> 0 [] c = "1" -> 1 [] c = "2" -> 2 [] c = "3" -> 3
      [] c = "4" -> 4 [] c = "5" -> 5 [] c = "6" -> 6 [] c = "7" -> 7
      [] c = "8" -> 8 [] c = "9" -> 9

RECURSIVE DigitsToInt(_)
DigitsToInt(s) ==
    IF s = <<>> THEN 0
    ELSE DigitsToInt(SubSeq(s, 1, Len(s) - 1)) * 10 + DigitVal(s[Len(s)])

RECURSIVE LStrip(_)
LStrip(s) == IF s # <<>> /\ s[1] = " " THEN LStrip(Tail(s)) ELSE s

RECURSIVE RStrip(_)
RStrip(s) ==
    IF s # <<>> /\ s[Len(s)] = " " THEN RStrip(SubSeq(s, 1, Len(s) - 1)) ELSE s

AllDigits(s) == \A k \in 1..Len(s) : s[k] \in Digits

\* the digits before and after the point, the latter read as thousandths
ParseDigits(int, frac) ==
    IF AllDigits(int) /\ AllDigits(frac) /\ Len(int) + Len(frac) >= 1 /\ Len(frac) <= 3
    THEN [ok |-> TRUE,
          v |-> DigitsToInt(int) * 1000
                + DigitsToInt(frac \o SubSeq(<<"0", "0", "0">>, 1, 3 - Len(frac)))]
    ELSE [ok |-> FALSE]

\* position of the first point of u, or one past its end
DotPosition(u) ==
    IF \E k \in 1..Len(u) : u[k] = "."
    THEN CHOOSE k \in 1..Len(u) : u[k] = "." /\ \A h \in 1..(k - 1) : u[h] # "."
    ELSE Len(u) + 1

ParseAt(u, dot) == ParseDigits(SubSeq(u, 1, dot - 1), SubSeq(u, dot + 1, Len(u)))

ParseUnsigned(u) == ParseAt(u, DotPosition(u))

Negate(f) == IF f.ok THEN [ok |-> TRUE, v |-> -f.v] ELSE f

ParseSigned(t) ==
    IF t # <<>> /\ t[1] = "-" THEN Negate(ParseUnsigned(Tail(t)))
    ELSE IF t # <<>> /\ t[1] = "+" THEN ParseUnsigned(Tail(t))
    ELSE ParseUnsigned(t)

\* Python's float(str) on the alphabet of the model: surrounding blanks, an
\* optional sign, digits with at most one point (up to three decimals) and at
\* least one digit.  [ok |-> FALSE] is ValueError.
ParseFloat(str) == ParseSigned(RStrip(LStrip(str)))

FloatOfStr(f) == IF f.ok THEN f ELSE [ok |-> FALSE, exc |-> "ValueError"]

\* float(value): [ok |-> FALSE] with the exception it raises.
ToFloat(value) ==
    CASE value.kind = "num" -> [ok |-> TRUE, v |-> value.v]
      [] value.kind = "str" -> FloatOfStr(ParseFloat(value.s))
      [] OTHER -> [ok |-> FALSE, exc |-> "TypeError"]

\* dict.get(key, 0) of a JSON number field
GetOr0(value) == IF value.kind = "missing" THEN Num(0) ELSE value

\* ------------------------------------------- get_amount_from_analysis_category

RECURSIVE SumTransactionAmounts(_)
\* the inner loop of the fallback path: values float() refuses are skipped
SumTransactionAmounts(txs) ==
    IF txs = <<>> THEN 0
    ELSE LET f == ToFloat(GetOr0(txs[1].amount))
         IN  (IF f.ok THEN Abs(f.v) ELSE 0) + SumTransactionAmounts(Tail(txs))

RECURSIVE SumGroupAmounts(_)
SumGroupAmounts(groups) ==
    IF groups = <<>> THEN 0
    ELSE SumTransactionAmounts(groups[1].transactions.items)
         + SumGroupAmounts(Tail(groups))

get_amount_from_analysis_category(analysis_category, key) ==
    LET points == analysis_category.analysisPoints
        hits == {k \in 1..Len(points) : points[k].name = key}
    IN  IF hits # {}
        THEN LET value == GetOr0(points[CHOOSE k \in hits : \A h \in hits : k <= h].value)
             IN  IF value.kind \in {"str", "num"} /\ ToFloat(value).ok
                 THEN Abs(ToFloat(value).v)
                 ELSE 0
        ELSE SumGroupAmounts(analysis_category.transactionGroups)

\* ------------------------------------- get_top_recurring_transaction_amount

RECURSIVE DebitAmounts(_)
\* the list comprehension: numeric amounts below zero, by absolute value
DebitAmounts(txs) ==
    IF txs = <<>> THEN <<>>
    ELSE (IF txs[1].amount.kind = "num" /\ txs[1].amount.v < 0
          THEN <<Abs(txs[1].amount.v)>> ELSE <<>>) \o DebitAmounts(Tail(txs))

RECURSIVE Counter(_)
\* collections.Counter: keys in the order they are first met
Counter(amounts) ==
    IF amounts = <<>> THEN <<>>
    ELSE LET c == Counter(SubSeq(amounts, 1, Len(amounts) - 1))
             a == amounts[Len(amounts)]
         IN  DictSet(c, a, IF DictHas(c, a) THEN DictGet(c, a) + 1 ELSE 1)

RecurrenceThreshold == 3

RECURSIVE FirstWithCount(_)
FirstWithCount(frequency) ==
    IF frequency = <<>> THEN 0
    ELSE IF frequency[1][2] >= RecurrenceThreshold THEN frequency[1][1]
    ELSE FirstWithCount(Tail(frequency))

RECURSIVE LastWithCount(_)
LastWithCount(frequency) ==
    IF frequency = <<>> THEN 0
    ELSE IF frequency[Len(frequency)][2] >= RecurrenceThreshold
         THEN frequency[Len(frequency)][1]
    ELSE LastWithCount(SubSeq(frequency, 1, Len(frequency) - 1))

get_top_recurring_LastWins(txs) ==
    LET amounts == DebitAmounts(txs)
    IN  IF amounts = <<>> THEN 0 ELSE LastWithCount(Counter(amounts))

get_top_recurring_transaction_amount(txs) ==
    LET amounts == DebitAmounts(txs)
    IN  IF amounts = <<>> THEN 0 ELSE FirstWithCount(Counter(amounts))

\* -------------------------------------------------------------- json.loads
\* An embedded JSON text is a sequence of tokens: the brackets and comma of a
\* list, and "obj", the text of one complete JSON object, which carries the
\* object it decodes to.

LBracket == [t |-> "["]
RBracket == [t |-> "]"]
Comma == [t |-> ","]
Obj(val) == [t |-> "obj", val |-> val]

\* json.loads: a single object, or a bracketed comma-separated list of
\* objects; anything else raises JSONDecodeError ([ok |-> FALSE]).
json_loads(toks) ==
    LET n == Len(toks)
        inner == SubSeq(toks, 2, n - 1)
        m == Len(inner)
        listOk ==
            /\ n >= 2 /\ toks[1].t = "[" /\ toks[n].t = "]"
            /\ \/ m = 0
               \/ /\ m % 2 = 1
                  /\ \A k \in 1..m :
                        inner[k].t = (IF k % 2 = 1 THEN "obj" ELSE ",")
    IN  IF n = 1 /\ toks[1].t = "obj"
        THEN [ok |-> TRUE, kind |-> "dict", val |-> toks[1].val]
        ELSE IF listOk
        THEN [ok |-> TRUE, kind |-> "list",
              items |-> [k \in 1..((m + 1) \div 2) |-> inner[2 * k - 1].val]]
        ELSE [ok |-> FALSE]

\* A list field that arrived decoded, or still as JSON text.
List(items) == [kind |-> "list", items |-> items]
Text(toks) == [kind |-> "text", toks |-> toks]

\* ---------------------------------------------------- calculate_sacc_loans

API_URL_LESS_THAN_300 == "loan-calculator/{amount}/2/fortnightly"
API_URL_GREATER_OR_EQUAL_300 == "loan-calculator/{amount}/5/fortnightly"

SaccThreshold == 300000

\* any(isinstance(tag, dict) and tag.get("creditDebit") == "credit" ...)
IsCredit(tx) ==
    \E k \in 1..Len(tx.tags) :
        tx.tags[k].kind = "dict" /\ tx.tags[k].creditDebit = "credit"

Records_ZeroAllowed(tx) ==
    /\ tx.kind = "dict" /\ IsCredit(tx)
    /\ GetOr0(tx.amount).kind = "num" /\ GetOr0(tx.amount).v >= 0

\* lines 132-143: whether the loop records this transaction's amount and
\* breaks: a dict with a credit tag whose amount is a number above zero
Records(tx) ==
    /\ tx.kind = "dict" /\ IsCredit(tx)
    /\ GetOr0(tx.amount).kind = "num" /\ GetOr0(tx.amount).v > 0

RECURSIVE ScanTransactions(_, _, _)
\* the loop over one group's transactions: record and stop at the first
\* credit-tagged transaction whose amount is a number above zero
ScanTransactions(res, third_party, txs) ==
    IF txs = <<>> THEN res
    ELSE IF Records(txs[1])
         THEN DictSet(res, third_party, GetOr0(txs[1].amount).v)
         ELSE ScanTransactions(res, third_party, Tail(txs))

\* the transactions of a group as the loop iterates them; a decoded JSON
\* object iterates as its keys, none of which is a dict
GroupTransactions(group) ==
    IF group.transactions.kind = "list" THEN [ok |-> TRUE, items |-> group.transactions.items]
    ELSE LET j == json_loads(group.transactions.toks)
         IN  IF ~j.ok THEN [ok |-> FALSE]
             ELSE IF j.kind = "list" THEN [ok |-> TRUE, items |-> j.items]
             ELSE [ok |-> TRUE, items |-> <<>>]

RECURSIVE ScanGroups(_, _)
ScanGroups(res, groups) ==
    IF groups = <<>> THEN res
    ELSE LET txs == GroupTransactions(groups[1])
         IN  ScanGroups(IF txs.ok THEN ScanTransactions(res, groups[1].name, txs.items)
                        ELSE res,
                        Tail(groups))

RECURSIVE SaccResults(_, _)
\* step 1 (lines 111-145): representative amount per counterparty
SaccResults(res, sa) ==
    IF sa = <<>> THEN res
    ELSE SaccResults(IF sa[1].kind = "dict" /\ sa[1].analysisCategory.name = "SACC Loans"
                     THEN ScanGroups(res, sa[1].analysisCategory.transactionGroups)
                     ELSE res,
                     Tail(sa))

\* int(total_amount) of a positive amount
IntDollars(amount) == amount \div 1000

SaccRequest_InclusiveBelow(third_party, total_amount) ==
    [party |-> third_party,
     url |-> IF total_amount <= SaccThreshold THEN API_URL_LESS_THAN_300
             ELSE API_URL_GREATER_OR_EQUAL_300,
     amount |-> IntDollars(total_amount)]

\* lines 150-153: the request issued for one counterparty
SaccRequest(third_party, total_amount) ==
    [party |-> third_party,
     url |-> IF total_amount < SaccThreshold THEN API_URL_LESS_THAN_300
             ELSE API_URL_GREATER_OR_EQUAL_300,
     amount |-> IntDollars(total_amount)]

\* What the loan-calculator service can answer: a transport or status
\* failure (RequestException), or a body whose repayment_amount is a string
\* or is absent.
Failed == [kind |-> "RequestException"]
Body(repayment_amount) == [kind |-> "ok", repayment_amount |-> repayment_amount]

SaccStore_ZeroOnFailure(totals, third_party, response) ==
    IF response.kind = "RequestException" THEN DictSet(totals, third_party, 0)
    ELSE LET f == ToFloat(IF response.repayment_amount.kind = "missing"
                          THEN Str(<<"0", ".", "0">>)
                          ELSE response.repayment_amount)
         IN  DictSet(totals, third_party, IF f.ok THEN f.v ELSE 0)

\* lines 156-170: sacc_totals after one counterparty's response
SaccStore(totals, third_party, response) ==
    IF response.kind = "RequestException" THEN totals
    ELSE LET f == ToFloat(IF response.repayment_amount.kind = "missing"
                          THEN Str(<<"0", ".", "0">>)
                          ELSE response.repayment_amount)
         IN  DictSet(totals, third_party, IF f.ok THEN f.v ELSE 0)

RECURSIVE SaccTotals(_, _, _)
\* step 2 (lines 147-172) against the responses api[k] of the k-th request
SaccTotals(totals, results, api) ==
    IF results = <<>> THEN totals
    ELSE SaccTotals(SaccStore(totals, results[1][1], api[1]), Tail(results), Tail(api))

calculate_sacc_loans(sa, api) == SaccTotals(<<>>, SaccResults(<<>>, sa), api)

\* ------------------------------ accumulate_metrics_from_statement_analysis

\* category_totals[key] = val
Put(ct, key, val) ==
    [k \in DOMAIN ct \cup {key} |-> IF k = key THEN val ELSE ct[k]]

AccumulateReset_KeepRent(ct) ==
    LET keys == {"Centrelink", "Gambling", "SACC", "Debt Collection", "Wages",
                 "Insurance"}
    IN  [k \in DOMAIN ct \cup keys \cup {"Rent"} |->
            IF k = "SACC" THEN Dict(<<>>)
            ELSE IF k \in keys THEN 0
            ELSE IF k \in DOMAIN ct THEN ct[k] ELSE 0]

\* lines 179-185
AccumulateReset(ct) ==
    LET keys == {"Rent", "Centrelink", "Gambling", "SACC", "Debt Collection",
                 "Wages", "Insurance"}
    IN  [k \in DOMAIN ct \cup keys |->
            IF k = "SACC" THEN Dict(<<>>)
            ELSE IF k \in keys THEN 0
            ELSE ct[k]]

\* lines 188-190: an empty result leaves the empty mapping of the reset
StoreSacc(ct, totals) == IF totals # <<>> THEN Put(ct, "SACC", Dict(totals)) ELSE ct

RECURSIVE FlattenTransactions(_)
\* lines 205-207
FlattenTransactions(groups) ==
    IF groups = <<>> THEN <<>>
    ELSE groups[1].transactions.items \o FlattenTransactions(Tail(groups))

RECURSIVE SumPoints(_, _)
\* sum(float(entry.get("value", 0)) for entry in points if name matches);
\* a value float() refuses raises out of the function
SumPoints(points, name) ==
    IF points = <<>> THEN [ok |-> TRUE, v |-> 0]
    ELSE LET rest == SumPoints(Tail(points), name)
             f == ToFloat(GetOr0(points[1].value))
         IN  IF points[1].name # name THEN rest
             ELSE IF ~f.ok THEN f
             ELSE IF ~rest.ok THEN rest
             ELSE [ok |-> TRUE, v |-> f.v + rest.v]

GamblingMonths == 6
MonthsPerYear == 12
FortnightsPerYear == 26

GamblingFortnightly_NoWindow(net) ==
    IF net > 0 THEN Round2Frac(net * MonthsPerYear, FortnightsPerYear) ELSE 0

\* lines 238-241
GamblingFortnightly(net) ==
    IF net > 0 THEN Round2Frac(net * MonthsPerYear, GamblingMonths * FortnightsPerYear)
    ELSE 0

CentrelinkUpdate_Accumulate(ct, centrelink_amount) ==
    IF centrelink_amount > 0
    THEN Put(ct, "Centrelink", ct["Centrelink"] + centrelink_amount)
    ELSE ct

\* lines 223-224
CentrelinkUpdate(ct, centrelink_amount) ==
    IF centrelink_amount > 0 THEN Put(ct, "Centrelink", centrelink_amount) ELSE ct

\* One iteration of the loop of lines 195-242 on `item`: the totals and the
\* Rent flag after it, or the exception that leaves the function.
AccumulateStep(ct, found, item) ==
    LET same == [ct |-> ct, rent_found |-> found, exc |-> "none"]
        analysis_category == item.analysisCategory
        category_name == analysis_category.name
        average ==
            get_amount_from_analysis_category(analysis_category, "averageTransactionAmount")
    IN  IF item.kind # "dict" THEN same
        ELSE CASE category_name = "Rent" ->
                    [ct |-> Put(ct, "Rent",
                                ct["Rent"] + get_top_recurring_transaction_amount(
                                    FlattenTransactions(analysis_category.transactionGroups))),
                     rent_found |-> TRUE, exc |-> "none"]
               [] category_name = "Insurance" ->
                    IF average > 0
                    THEN [same EXCEPT !.ct = Put(ct, "Insurance", ct["Insurance"] + average)]
                    ELSE same
               [] category_name = "Wages" ->
                    IF average > 0
                    THEN [same EXCEPT !.ct = Put(ct, "Wages", ct["Wages"] + average)]
                    ELSE same
               [] category_name = "Centrelink" ->
                    [same EXCEPT !.ct = CentrelinkUpdate(ct, average)]
               [] category_name = "Gambling" ->
                    LET total_debits ==
                            SumPoints(analysis_category.analysisPoints, "totalAmountDebits")
                        total_credits ==
                            SumPoints(analysis_category.analysisPoints, "totalAmountCredits")
                    IN  IF ~total_debits.ok THEN [same EXCEPT !.exc = total_debits.exc]
                        ELSE IF ~total_credits.ok THEN [same EXCEPT !.exc = total_credits.exc]
                        ELSE [same EXCEPT !.ct =
                                Put(ct, "Gambling",
                                    ct["Gambling"]
                                    + GamblingFortnightly(total_debits.v - total_credits.v))]
               [] OTHER -> same

\* lines 244-245
AccumulateFinish(ct, found) == IF ~found THEN Put(ct, "Rent", 0) ELSE ct

RECURSIVE AccumulateLoop(_, _)
AccumulateLoop(st, items) ==
    IF items = <<>> \/ st.exc # "none" THEN st
    ELSE AccumulateLoop(AccumulateStep(st.ct, st.rent_found, items[1]), Tail(items))

\* the whole function, against the loan-calculator responses `api`
accumulate_metrics_from_statement_analysis(sa, ct, api) ==
    LET start == StoreSacc(AccumulateReset(ct), calculate_sacc_loans(sa, api))
        st == AccumulateLoop([ct |-> start, rent_found |-> FALSE, exc |-> "none"], sa)
    IN  [ct |-> IF st.exc = "none" THEN AccumulateFinish(st.ct, st.rent_found) ELSE st.ct,
         exc |-> st.exc]

\* --------------------------------------------------------- categorize_data

RECURSIVE NatToDigits(_)
NatToDigits(n) ==
    IF n < 10 THEN <<SubSeq(<<"0", "1", "2", "3", "4", "5", "6", "7", "8", "9">>,
                            n + 1, n + 1)[1]>>
    ELSE NatToDigits(n \div 10) \o NatToDigits(n % 10)

RECURSIVE DropTrailingZeros(_)
DropTrailingZeros(s) ==
    IF s # <<>> /\ s[Len(s)] = "0" THEN DropTrailingZeros(SubSeq(s, 1, Len(s) - 1))
    ELSE s

\* the three digits of a number of thousandths
Thousandths(m) ==
    NatToDigits(m \div 100) \o NatToDigits((m \div 10) % 10) \o NatToDigits(m % 10)

\* str() of a JSON number: sign, whole part, and the decimals it has
StrOfNum(v) ==
    (IF v < 0 THEN <<"-">> ELSE <<>>)
    \o NatToDigits(Abs(v) \div 1000)
    \o (IF Abs(v) % 1000 = 0 THEN <<>>
        ELSE <<".">> \o DropTrailingZeros(Thousandths(Abs(v) % 1000)))

\* line 260: str(metric.get("value", "0.0"))
ValueStr(value) ==
    CASE value.kind = "str" -> value.s
      [] value.kind = "num" -> StrOfNum(value.v)
      [] value.kind = "missing" -> <<"0", ".", "0">>
      [] OTHER -> <<"N", "o", "n", "e">>

\* The literal marker "(Once off)" is one character of the model's alphabet.
OnceOff == "(Once off)"

\* "(Once off)" in value_str
HasOnceOff(value_str) == \E k \in 1..Len(value_str) : value_str[k] = OnceOff

RECURSIVE RemoveDollar(_)
\* value_str.replace("$", "")
RemoveDollar(str) ==
    IF str = <<>> THEN <<>>
    ELSE (IF str[1] = "$" THEN <<>> ELSE <<str[1]>>) \o RemoveDollar(Tail(str))

RECURSIVE RemoveOnceOff(_)
\* .replace(" (Once off)", "")
RemoveOnceOff(str) ==
    IF Len(str) < 2 THEN str
    ELSE IF str[1] = " " /\ str[2] = OnceOff THEN RemoveOnceOff(Tail(Tail(str)))
    ELSE <<str[1]>> \o RemoveOnceOff(Tail(str))

\* lines 275-279
MetricValue(value_str) ==
    LET f == ParseFloat(RemoveOnceOff(RemoveDollar(value_str)))
    IN  IF f.ok THEN f.v ELSE 0

SkippedNames ==
    {"Wages - Monthly", "Centrelink - Monthly", "SACC Loans - Monthly",
     "All Loans - Monthly"}

Latch(total, found) == [total |-> total, rent_found |-> found]

CategorizeStep_NoLatch(total, found, metric) ==
    IF metric.name = "Rent - Monthly" THEN Latch(total, TRUE)
    ELSE IF metric.name = "Insurance - Monthly" \/ HasOnceOff(ValueStr(metric.value))
    THEN Latch(total, found)
    ELSE IF metric.name \in SkippedNames THEN Latch(total, found)
    ELSE Latch(total + MetricValue(ValueStr(metric.value)), found)

CategorizeStep_NoSkippedNames(total, found, metric) ==
    IF metric.name = "Rent - Monthly" THEN Latch(total, TRUE)
    ELSE IF ~found THEN Latch(total, found)
    ELSE IF metric.name = "Insurance - Monthly" \/ HasOnceOff(ValueStr(metric.value))
    THEN Latch(total, found)
    ELSE Latch(total + MetricValue(ValueStr(metric.value)), found)

\* lines 259-286: the running total and the latch after one metric
CategorizeStep(total, found, metric) ==
    IF metric.name = "Rent - Monthly" THEN Latch(total, TRUE)
    ELSE IF ~found THEN Latch(total, found)
    ELSE IF metric.name = "Insurance - Monthly" \/ HasOnceOff(ValueStr(metric.value))
    THEN Latch(total, found)
    ELSE IF metric.name \in SkippedNames THEN Latch(total, found)
    ELSE Latch(total + MetricValue(ValueStr(metric.value)), found)

\* line 289
LivingExpenses(total) == Round2Frac(total * MonthsPerYear, FortnightsPerYear)

RECURSIVE CategorizeLoop(_, _)
CategorizeLoop(st, metrics) ==
    IF metrics = <<>> THEN st
    ELSE CategorizeLoop(CategorizeStep(st.total, st.rent_found, metrics[1]), Tail(metrics))

\* lines 252-292 on the totals `acc` left by the accumulation
CategorizeTotals(acc, metrics) ==
    Put(Put(acc, "Living Expenses",
            LivingExpenses(CategorizeLoop(Latch(0, FALSE), metrics).total)),
        "Centrelink", acc["Centrelink"])

Accumulated(acc, metrics) ==
    IF acc.exc = "none" THEN [ct |-> CategorizeTotals(acc.ct, metrics), exc |-> "none"]
    ELSE acc

\* the whole function, against the loan-calculator responses `api`
categorize_data(metrics, ct, sa, api) ==
    Accumulated(accumulate_metrics_from_statement_analysis(sa, ct, api), metrics)

\* ------------------------------------------------ parse_statement_analysis

\* line 60: account.get("statementAnalysis", "[]")
StatementAnalysisStr(account) ==
    IF account.statementAnalysis.kind = "missing" THEN <<LBracket, RBracket>>
    ELSE account.statementAnalysis.toks

Extended(all, j) == IF j.ok /\ j.kind = "list" THEN all \o j.items ELSE all

ParseAccount_DropOnError(all, account) ==
    IF json_loads(StatementAnalysisStr(account)).ok
    THEN Extended(all, json_loads(StatementAnalysisStr(account)))
    ELSE <<>>

\* lines 60-67: all_analyses after one account
ParseAccount(all, account) == Extended(all, json_loads(StatementAnalysisStr(account)))

RECURSIVE ParseAccounts(_, _)
ParseAccounts(all, accounts) ==
    IF accounts = <<>> THEN all
    ELSE ParseAccounts(ParseAccount(all, accounts[1]), Tail(accounts))

\* lines 55-69, on the value of raw_data["illionBankAccount"]
parse_statement_analysis(accounts) == ParseAccounts(<<>>, accounts)

\* ----------------------------------------------- the per-loan pipeline of main

\* lines 46-53: the decoded value, whatever its type; [] when it does not decode
DecodedMetrics(j) ==
    IF ~j.ok THEN [kind |-> "list", items |-> <<>>]
    ELSE IF j.kind = "list" THEN [kind |-> "list", items |-> j.items]
    ELSE [kind |-> "dict"]

parse_decision_metrics(doc) ==
    DecodedMetrics(json_loads(IF doc.illionCustomerInfo.decisionMetrics.kind = "missing"
                              THEN <<LBracket, RBracket>>
                              ELSE doc.illionCustomerInfo.decisionMetrics.toks))

\* line 56: raw_data.get("illionBankAccount", [])
BankAccounts(doc) ==
    IF doc.illionBankAccount.kind = "missing" THEN <<>> ELSE doc.illionBankAccount.items

\* lines 313-314: [{}][0] without the key, IndexError on an empty list
AccountHolder(doc) ==
    IF doc.illionBankAccount.kind = "missing" THEN [ok |-> TRUE, v |-> "Unknown"]
    ELSE IF doc.illionBankAccount.items = <<>> THEN [ok |-> FALSE, exc |-> "IndexError"]
    ELSE [ok |-> TRUE, v |-> doc.illionBankAccount.items[1].account_holder]

Rendered(holder, ct, totals, loan_id) ==
    IF holder.ok
    THEN [exc |-> "none",
          output |-> [loan_id |-> loan_id, account_holder |-> holder.v,
                      category_totals |-> ct, total_income |-> totals[1],
                      total_expenses |-> totals[2]]]
    ELSE [exc |-> holder.exc]

\* lines 312-337: the fields the text is rendered from
format_output(doc, ct, totals, loan_id) == Rendered(AccountHolder(doc), ct, totals, loan_id)

\* lines 360-362
Totalled(doc, cat, loan_id) ==
    IF cat.exc # "none" THEN [exc |-> cat.exc]
    ELSE format_output(doc, cat.ct, calculate_totals(cat.ct), loan_id)

\* lines 258-259: a decoded object iterates as its keys, and str has no .get
CategorizeDecoded(metrics, sa, api) ==
    IF metrics.kind = "list"
    THEN categorize_data(metrics.items, initialize_category_totals, sa, api)
    ELSE IF accumulate_metrics_from_statement_analysis(
                sa, initialize_category_totals, api).exc # "none"
    THEN accumulate_metrics_from_statement_analysis(sa, initialize_category_totals, api)
    ELSE [exc |-> "AttributeError"]

\* lines 355-361 for one fetched document
ProcessLoan(doc, loan_id, api) ==
    Totalled(doc,
             CategorizeDecoded(parse_decision_metrics(doc),
                               parse_statement_analysis(BankAccounts(doc)), api),
             loan_id)

\* ------------------------------------------------- variables a run leaves idle

IdleInputs ==
    /\ statement_analysis = <<>> /\ decision_metrics = <<>>
    /\ bank_accounts = <<>> /\ transactions = <<>>

IdleLoop == i = 0 /\ rent_found = FALSE /\ living_expenses_total = 0

IdleSacc ==
    /\ sacc_results = <<>> /\ sacc_totals = <<>> /\ calls = <<>>
    /\ transaction_groups = <<>> /\ counterparty = None

IdleOutputs ==
    /\ all_analyses = <<>> /\ all_outputs = <<>> /\ centrelink_from_statement = 0
    /\ raw_data = None /\ saved_file = None /\ fetched = <<>>

\* =========================================================================
\* calculate_totals applied to a bounded family of CategoryTotals records
\* =========================================================================

SaccValues ==
    {Scalar(0), Scalar(100125), Dict(<<>>), Dict(<<<<"X", 100000>>>>),
     Dict(<<<<"X", 100000>>, <<"Y", 50125>>>>)}

InitTotals ==
    /\ pc = "totals"
    /\ \E w \in {0, 1000000, 125}, c \in {0, 300000, 250}, s \in SaccValues,
          d \in {0, 50000}, l \in {0, 200000, 375}, r \in {0, 400000},
          g \in {0, 92310}, n \in {0, 30000} :
          category_totals =
              [k \in {"Wages", "Centrelink", "SACC", "Debt Collection",
                      "Living Expenses", "Rent", "Gambling", "Insurance"} |->
                  CASE k = "Wages" -> w [] k = "Centrelink" -> c [] k = "SACC" -> s
                    [] k = "Debt Collection" -> d [] k = "Living Expenses" -> l
                    [] k = "Rent" -> r [] k = "Gambling" -> g [] k = "Insurance" -> n]
    /\ IdleInputs /\ IdleLoop /\ IdleSacc /\ IdleOutputs
    /\ result = None

CalculateTotals ==
    /\ pc = "totals"
    /\ result' = [kind |-> "totals", v |-> calculate_totals(category_totals)]
    /\ pc' = "done"
    /\ UNCHANGED <<transaction_groups, counterparty, category_totals, statement_analysis, fetched, centrelink_from_statement,
                   raw_data, saved_file, decision_metrics, i,
                   rent_found, living_expenses_total, sacc_results, sacc_totals,
                   calls, bank_accounts, all_analyses, transactions, all_outputs>>

NextTotals == CalculateTotals

SpecTotals == InitTotals /\ [][NextTotals]_vars

\* C1: calculate_totals returns totalIncome = round(Wages + Centrelink, 2),
\* totalExpenses = round(totalSACC + Debt Collection + Living Expenses, 2),
\* with totalSACC the sum of the mapping's values or the scalar itself, and
\* surplus = round(totalIncome - totalExpenses, 2); Rent, Gambling and
\* Insurance enter none of them; the worked example gives
\* (1300.00, 350.00, 950.00).
C1_TotalsFormula ==
    (pc = "done" /\ result.kind = "totals") =>
        LET ct == category_totals
            sacc == ct["SACC"]
            totalSACC ==
                IF sacc.kind = "dict"
                THEN (IF Len(sacc.d) >= 1 THEN sacc.d[1][2] ELSE 0)
                     + (IF Len(sacc.d) >= 2 THEN sacc.d[2][2] ELSE 0)
                ELSE sacc.v
            income == Round2(ct["Wages"] + ct["Centrelink"])
            expenses == Round2(totalSACC + ct["Debt Collection"] + ct["Living Expenses"])
        IN  /\ result.v = <<income, expenses, Round2(income - expenses)>>
            /\ (/\ ct["Wages"] = 1000000 /\ ct["Centrelink"] = 300000
                /\ sacc = Dict(<<<<"X", 100000>>>>)
                /\ ct["Debt Collection"] = 50000 /\ ct["Living Expenses"] = 200000)
               => result.v = <<1300000, 350000, 950000>>

\* the worked example has been computed, with Rent, Gambling and Insurance set
C1_Witness ==
    /\ pc = "done" /\ result.kind = "totals"
    /\ category_totals["Wages"] = 1000000 /\ category_totals["Centrelink"] = 300000
    /\ category_totals["SACC"] = Dict(<<<<"X", 100000>>>>)
    /\ category_totals["Debt Collection"] = 50000
    /\ category_totals["Living Expenses"] = 200000
    /\ category_totals["Rent"] = 400000 /\ category_totals["Gambling"] = 92310
    /\ category_totals["Insurance"] = 30000
    /\ result.v = <<1300000, 350000, 950000>>

\* =========================================================================
\* Statement-analysis data: constructors and the bounded pools of inputs
\* =========================================================================

Tag(creditDebit) == [kind |-> "dict", creditDebit |-> creditDebit]
Tx(amount, tags) == [kind |-> "dict", amount |-> amount, tags |-> tags]
NonDict == [kind |-> "str"]
Group(name, txs) == [name |-> name, transactions |-> txs]
Point(name, value) == [name |-> name, value |-> value]
Entry(name, points, groups) ==
    [kind |-> "dict",
     analysisCategory |->
        [name |-> name, analysisPoints |-> points, transactionGroups |-> groups]]

\* every sequence over S of length at most n
SeqsUpTo(S, n) == UNION {[1..m -> S] : m \in 0..n}

\* =========================================================================
\* get_top_recurring_transaction_amount on bounded transaction lists
\* =========================================================================

MaxTransactions == 6

TransactionPool ==
    {Tx(Num(-400000), <<>>), Tx(Num(-200000), <<>>), Tx(Num(400000), <<>>),
     Tx(Str(<<"-", "4", "0", "0">>), <<>>)}

InitRecurring ==
    /\ pc = "recurring"
    /\ transactions \in SeqsUpTo(TransactionPool, MaxTransactions)
    /\ statement_analysis = <<>> /\ decision_metrics = <<>> /\ bank_accounts = <<>>
    /\ category_totals = initialize_category_totals
    /\ IdleLoop /\ IdleSacc /\ IdleOutputs
    /\ result = None

GetTopRecurring ==
    /\ pc = "recurring"
    /\ result' = [kind |-> "amount",
                  v |-> get_top_recurring_transaction_amount(transactions)]
    /\ pc' = "done"
    /\ UNCHANGED <<transaction_groups, counterparty, category_totals, statement_analysis, fetched, centrelink_from_statement,
                   raw_data, saved_file, decision_metrics, i,
                   rent_found, living_expenses_total, sacc_results, sacc_totals,
                   calls, bank_accounts, all_analyses, transactions, all_outputs>>

NextRecurring == GetTopRecurring

SpecRecurring == InitRecurring /\ [][NextRecurring]_vars

\* positions of `transactions` holding a debit: a numeric amount below zero
DebitPositions == {k \in 1..Len(transactions) :
                      transactions[k].amount.kind = "num" /\ transactions[k].amount.v < 0}

\* number of debits of absolute value a
Occurrences(a) == Cardinality({k \in DebitPositions : -transactions[k].amount.v = a})

\* C10: the detector looks only at debits (numeric amount < 0), by absolute
\* value, and returns the first amount in order of first appearance whose
\* count among the debits is at least 3; credits and amounts seen fewer than
\* 3 times are never returned; with no such amount the result is 0.0.
C10_FirstRecurringDebit ==
    (pc = "done" /\ result.kind = "amount") =>
        LET recurring == {k \in DebitPositions :
                             Occurrences(-transactions[k].amount.v) >= 3}
        IN  IF recurring = {} THEN result.v = 0
            ELSE \E k \in recurring :
                    /\ \A h \in recurring : k <= h
                    /\ result.v = -transactions[k].amount.v

\* two amounts recur; the one met first is returned although the other
\* reached its third occurrence earlier, and a credit of 400 is in the list
C10_Witness ==
    /\ pc = "done" /\ result.kind = "amount" /\ result.v = 200000
    /\ Occurrences(400000) >= 3
    /\ \E k \in 1..Len(transactions) : transactions[k].amount = Num(-400000)
          /\ Cardinality({h \in DebitPositions : h < k /\ transactions[h].amount.v = -200000}) = 1
          /\ Cardinality({h \in DebitPositions : h <= k /\ transactions[h].amount.v = -400000}) = 3

\* =========================================================================
\* accumulate_metrics_from_statement_analysis, one loop iteration per step
\* =========================================================================

MaxEntries == 3

Average(value) == <<Point("averageTransactionAmount", value)>>

Debit400 == Tx(Num(-400000), <<Tag("debit")>>)
Debit200 == Tx(Num(-200000), <<Tag("debit")>>)

Centrelink500 == Entry("Centrelink", Average(Num(500000)), <<>>)
Centrelink300 == Entry("Centrelink", Average(Str(<<"3", "0", "0">>)), <<>>)
CentrelinkZero == Entry("Centrelink", Average(Num(0)), <<>>)
\* no summary point: the amount is the sum of the transactions, 100 + 50
CentrelinkFallback ==
    Entry("Centrelink", <<Point("totalAmount", Num(999000))>>,
          <<Group("Services Australia",
                  List(<<Tx(Num(100000), <<Tag("credit")>>), Tx(Num(-50000), <<>>)>>))>>)
\* 400 three times in one group
Rent400 ==
    Entry("Rent", <<>>, <<Group("Agent", List(<<Debit400, Debit400, Debit400>>))>>)
\* 200 three times only once the two groups are flattened
Rent200 ==
    Entry("Rent", <<>>,
          <<Group("Landlord", List(<<Debit200, Debit400, Debit200>>)),
            Group("Landlord 2", List(<<Debit200>>))>>)
RentNone == Entry("Rent", <<>>, <<Group("Agent", List(<<Debit400, Debit400>>))>>)
Gambling1200 ==
    Entry("Gambling",
          <<Point("totalAmountDebits", Num(1200000)), Point("totalAmountCredits", Num(0))>>,
          <<>>)
GamblingWon ==
    Entry("Gambling",
          <<Point("totalAmountDebits", Num(100000)),
            Point("totalAmountCredits", Str(<<"2", "5", "0">>))>>,
          <<>>)
GamblingBad ==
    Entry("Gambling", <<Point("totalAmountDebits", Str(<<"n", "/", "a">>))>>, <<>>)
Wages1000 == Entry("Wages", Average(Num(1000125)), <<>>)
Insurance30 == Entry("Insurance", Average(Num(-30000)), <<>>)
SaccX250 ==
    Entry("SACC Loans", <<>>,
          <<Group("X", List(<<Tx(Num(250000), <<Tag("credit")>>)>>))>>)

AnalysisPool ==
    {Centrelink500, Centrelink300, CentrelinkZero, CentrelinkFallback, Rent400,
     Rent200, RentNone, Gambling1200, GamblingWon, GamblingBad, Wages1000,
     Insurance30, SaccX250, NonDict}

ResponsePool ==
    {Failed, Body(Str(<<"4", "5", ".", "5">>)), Body(Str(<<"n", "/", "a">>)),
     Body(Missing)}

\* the requests step 2 issues, in order
SaccCalls(results) ==
    [k \in 1..Len(results) |-> SaccRequest(results[k][1], results[k][2])]

InitAccumulate ==
    /\ pc = "accumulate"
    /\ statement_analysis \in SeqsUpTo(AnalysisPool, MaxEntries)
    /\ category_totals \in
          {initialize_category_totals, Put(initialize_category_totals, "Rent", 777000)}
    /\ decision_metrics = <<>> /\ bank_accounts = <<>> /\ transactions = <<>>
    /\ IdleLoop /\ IdleSacc /\ IdleOutputs
    /\ result = None

\* lines 179-193
AccumulateBegin ==
    /\ pc = "accumulate"
    /\ LET results == SaccResults(<<>>, statement_analysis)
       IN  \E api \in SeqsUpTo(ResponsePool, Len(results)) :
              /\ Len(api) = Len(results)
              /\ sacc_results' = results
              /\ calls' = SaccCalls(results)
              /\ sacc_totals' = SaccTotals(<<>>, results, api)
              /\ category_totals' =
                    StoreSacc(AccumulateReset(category_totals),
                              SaccTotals(<<>>, results, api))
    /\ rent_found' = FALSE
    /\ i' = 1
    /\ pc' = "loop"
    /\ UNCHANGED <<transaction_groups, counterparty, statement_analysis, fetched, centrelink_from_statement,
                   raw_data, saved_file, decision_metrics, living_expenses_total,
                   bank_accounts, all_analyses, transactions, all_outputs,
          centrelink_from_statement, raw_data, saved_file, fetched, result>>

\* lines 195-242, one entry that raises nothing
AccumulateEntry ==
    /\ pc = "loop" /\ i <= Len(statement_analysis)
    /\ LET st == AccumulateStep(category_totals, rent_found, statement_analysis[i])
       IN  /\ st.exc = "none"
           /\ category_totals' = st.ct
           /\ rent_found' = st.rent_found
    /\ i' = i + 1
    /\ UNCHANGED <<transaction_groups, counterparty, pc, statement_analysis, fetched, centrelink_from_statement,
                   raw_data, saved_file, decision_metrics, living_expenses_total,
                   sacc_results, sacc_totals, calls, bank_accounts, all_analyses,
                   transactions, all_outputs, result>>

\* lines 227-236: float() of a Gambling point raises out of the function
AccumulateRaise ==
    /\ pc = "loop" /\ i <= Len(statement_analysis)
    /\ LET st == AccumulateStep(category_totals, rent_found, statement_analysis[i])
       IN  /\ st.exc # "none"
           /\ result' = [kind |-> "raised", exc |-> st.exc]
    /\ pc' = "raised"
    /\ UNCHANGED <<transaction_groups, counterparty, category_totals, statement_analysis, fetched, centrelink_from_statement,
                   raw_data, saved_file, decision_metrics, i,
                   rent_found, living_expenses_total, sacc_results, sacc_totals,
                   calls, bank_accounts, all_analyses, transactions, all_outputs>>

\* lines 244-245 and the return
AccumulateEnd ==
    /\ pc = "loop" /\ i > Len(statement_analysis)
    /\ category_totals' = AccumulateFinish(category_totals, rent_found)
    /\ pc' = "done"
    /\ UNCHANGED <<transaction_groups, counterparty, statement_analysis, fetched, centrelink_from_statement,
                   raw_data, saved_file, decision_metrics, i, rent_found,
                   living_expenses_total, sacc_results, sacc_totals, calls,
                   bank_accounts, all_analyses, transactions, all_outputs,
          centrelink_from_statement, raw_data, saved_file, fetched, result>>

NextAccumulate ==
    \/ AccumulateBegin
    \/ AccumulateEntry
    \/ AccumulateRaise
    \/ AccumulateEnd

SpecAccumulate == InitAccumulate /\ [][NextAccumulate]_vars

\* positions of statement_analysis holding an entry of category `name`
Named(name) ==
    {k \in 1..Len(statement_analysis) :
        statement_analysis[k].kind = "dict"
        /\ statement_analysis[k].analysisCategory.name = name}

\* the averageTransactionAmount-derived amount of entry k
DerivedAmount(k) ==
    get_amount_from_analysis_category(statement_analysis[k].analysisCategory,
                                      "averageTransactionAmount")

Last(S) == CHOOSE k \in S : \A h \in S : h <= k

\* The statement of C2 as written: with at least one Centrelink entry, the
\* Centrelink total is the derived amount of the last one.
C2_LastCentrelinkWins ==
    (pc = "done" /\ Named("Centrelink") # {}) =>
        category_totals["Centrelink"] = DerivedAmount(Last(Named("Centrelink")))

\* C2 (amended): after the call the Centrelink total is the derived amount
\* of the last Centrelink entry whose derived amount is above zero (never a
\* sum), and 0.0 when no Centrelink entry has one.
C2_LastPositiveCentrelinkWins ==
    pc = "done" =>
        LET positive == {k \in Named("Centrelink") : DerivedAmount(k) > 0}
        IN  category_totals["Centrelink"] =
                IF positive = {} THEN 0 ELSE DerivedAmount(Last(positive))

\* entries deriving 500 then 300 have been processed and the total is 300
C2_Witness ==
    /\ pc = "done"
    /\ \E k, h \in Named("Centrelink") :
          /\ k < h /\ h = Last(Named("Centrelink"))
          /\ DerivedAmount(k) = 500000 /\ DerivedAmount(h) = 300000
    /\ category_totals["Centrelink"] = 300000

RECURSIVE RentSum(_)
\* sum of the detector's results over the Rent entries at positions S
RentSum(S) ==
    IF S = {} THEN 0
    ELSE LET k == Last(S)
         IN  RentSum(S \ {k})
             + get_top_recurring_transaction_amount(
                   FlattenTransactions(
                       statement_analysis[k].analysisCategory.transactionGroups))

\* C4: after the call the Rent total is the sum, over the entries named
\* "Rent", of the detector's result on the entry's flattened transactions;
\* with no such entry it is 0.0 whatever Rent held before the call.
C4_RentAccumulates ==
    pc = "done" =>
        /\ category_totals["Rent"] = RentSum(Named("Rent"))
        /\ Named("Rent") = {} => category_totals["Rent"] = 0

\* two Rent entries (400 and 200) have been summed, next to another category
C4_Witness ==
    /\ pc = "done"
    /\ Cardinality(Named("Rent")) = 2
    /\ Named("Rent") # 1..Len(statement_analysis)
    /\ category_totals["Rent"] = 600000

\* The statement of C5 as written: debits 1200, credits 0 give 923.08.
C5_Gambling923 ==
    (pc = "done" /\ \E k \in Named("Gambling") :
                        Named("Gambling") = {k} /\ statement_analysis[k] = Gambling1200)
        => category_totals["Gambling"] = 923080

\* C5 (amended): when the only Gambling entry has totalAmountDebits = 1200
\* and totalAmountCredits = 0, the Gambling total is
\* round(((1200/6)*12)/26, 2) = 92.31.
C5_Gambling9231 ==
    (pc = "done" /\ \E k \in Named("Gambling") :
                        Named("Gambling") = {k} /\ statement_analysis[k] = Gambling1200)
        => category_totals["Gambling"] = 92310

\* such a list has been processed
C5_Witness ==
    /\ pc = "done"
    /\ \E k \in Named("Gambling") :
          Named("Gambling") = {k} /\ statement_analysis[k] = Gambling1200
    /\ Len(statement_analysis) >= 2
    /\ category_totals["Gambling"] = 92310

\* =========================================================================
\* calculate_sacc_loans, one loan-calculator lookup per step
\* =========================================================================

MaxSaccEntries == 2

Credit(amount) == Tx(Num(amount), <<Tag("credit")>>)

\* a debit-tagged transaction precedes the credit of 300
SaccY300 ==
    Entry("SACC Loans", <<>>,
          <<Group("Y", List(<<Tx(Num(900000), <<NonDict, Tag("debit")>>),
                              Credit(300000)>>))>>)
\* Z: a credit tag on a negative amount, then 299.50, then 800;
\* W: transactions still JSON text
SaccZW ==
    Entry("SACC Loans", <<>>,
          <<Group("Z", List(<<Credit(-50000), NonDict, Credit(299500), Credit(800000)>>)),
            Group("W", Text(<<LBracket, Obj(Credit(1000000)), RBracket>>))>>)
SaccX300 ==
    Entry("SACC Loans", <<>>, <<Group("X", List(<<Credit(300125)>>))>>)
\* V: JSON text that does not decode; U: no credit at all
SaccNone ==
    Entry("SACC Loans", <<>>,
          <<Group("V", Text(<<LBracket, Obj(Credit(500000))>>)),
            Group("U", List(<<Tx(Num(500000), <<Tag("debit")>>)>>))>>)

SaccPool == {SaccX250, SaccY300, SaccZW, SaccX300, SaccNone, Rent400, NonDict}

InitSacc ==
    /\ pc = "sacc"
    /\ statement_analysis \in SeqsUpTo(SaccPool, MaxSaccEntries)
    /\ category_totals = initialize_category_totals
    /\ decision_metrics = <<>> /\ bank_accounts = <<>> /\ transactions = <<>>
    /\ IdleLoop /\ IdleSacc /\ IdleOutputs
    /\ result = None

\* lines 111-147
SaccScan ==
    /\ pc = "sacc"
    /\ sacc_results' = SaccResults(<<>>, statement_analysis)
    /\ sacc_totals' = <<>>
    /\ i' = 1
    /\ pc' = "lookup"
    /\ UNCHANGED <<transaction_groups, counterparty, category_totals, statement_analysis, fetched, centrelink_from_statement,
                   raw_data, saved_file, decision_metrics,
                   rent_found, living_expenses_total, calls, bank_accounts,
                   all_analyses, transactions, all_outputs, result>>

\* lines 148-170 for the i-th counterparty; `calls` records the request and
\* what the service answered
SaccLookup ==
    /\ pc = "lookup" /\ i <= Len(sacc_results)
    /\ \E response \in ResponsePool :
          /\ calls' = Append(calls,
                             [request |-> SaccRequest(sacc_results[i][1], sacc_results[i][2]),
                              response |-> response])
          /\ sacc_totals' = SaccStore(sacc_totals, sacc_results[i][1], response)
    /\ i' = i + 1
    /\ UNCHANGED <<transaction_groups, counterparty, pc, category_totals, statement_analysis, fetched, centrelink_from_statement,
                   raw_data, saved_file, decision_metrics,
                   rent_found, living_expenses_total, sacc_results, bank_accounts,
                   all_analyses, transactions, all_outputs, result>>

\* line 172
SaccReturn ==
    /\ pc = "lookup" /\ i > Len(sacc_results)
    /\ result' = [kind |-> "dict", d |-> sacc_totals]
    /\ pc' = "done"
    /\ UNCHANGED <<transaction_groups, counterparty, category_totals, statement_analysis, fetched, centrelink_from_statement,
                   raw_data, saved_file, decision_metrics, i,
                   rent_found, living_expenses_total, sacc_results, sacc_totals,
                   calls, bank_accounts, all_analyses, transactions, all_outputs>>

NextSacc ==
    \/ SaccScan
    \/ SaccLookup
    \/ SaccReturn

SpecSacc == InitSacc /\ [][NextSacc]_vars

\* C6: the lookup of a counterparty with representative amount a goes to the
\* "<300" endpoint (term 2) iff a < 300 and to the ">=300" endpoint (term 5)
\* otherwise, 300 itself going to the latter and 250 to the former; each
\* counterparty gets exactly one request.
C6_ThresholdDispatch ==
    /\ \A k \in 1..Len(calls) :
          LET a == sacc_results[k][2]
              url == calls[k].request.url
          IN  /\ calls[k].request.party = sacc_results[k][1]
              /\ url \in {"loan-calculator/{amount}/2/fortnightly",
                          "loan-calculator/{amount}/5/fortnightly"}
              /\ url = "loan-calculator/{amount}/2/fortnightly" <=> a < 300000
              /\ a = 300000 => url = "loan-calculator/{amount}/5/fortnightly"
              /\ a = 250000 => url = "loan-calculator/{amount}/2/fortnightly"
    /\ pc = "done" => Len(calls) = Len(sacc_results)

\* 250 has gone to the "<300" endpoint and 300 to the ">=300" one
C6_Witness ==
    /\ pc = "done"
    /\ \E k, h \in 1..Len(calls) :
          /\ sacc_results[k][2] = 250000
          /\ calls[k].request.url = API_URL_LESS_THAN_300
          /\ sacc_results[h][2] = 300000
          /\ calls[h].request.url = API_URL_GREATER_OR_EQUAL_300

\* the counterparties among the first n whose lookup did not fail, in order
RECURSIVE Succeeded(_)
Succeeded(n) ==
    IF n = 0 THEN <<>>
    ELSE Succeeded(n - 1)
         \o (IF calls[n].response.kind = "RequestException" THEN <<>>
             ELSE <<calls[n].request.party>>)

\* C7: whichever lookups fail at the transport/status level, the function
\* returns, every counterparty's lookup is attempted exactly once, and the
\* keys of the returned mapping are exactly the counterparties whose lookup
\* succeeded: a failed one is left out, and no failure removes or prevents a
\* sibling's entry.
C7_FailedLookupsOmitted ==
    /\ pc \in {"sacc", "lookup", "done"}
    /\ pc # "sacc" => DictKeys(sacc_totals) = Succeeded(Len(calls))
    /\ pc = "done" =>
          /\ [k \in 1..Len(calls) |-> calls[k].request.party] = DictKeys(sacc_results)
          /\ DictKeys(result.d) = Succeeded(Len(calls))

\* three counterparties: the second lookup failed, the first and third are
\* in the result
C7_Witness ==
    /\ pc = "done" /\ Len(calls) = 3
    /\ calls[1].response.kind = "ok"
    /\ calls[2].response.kind = "RequestException"
    /\ calls[3].response.kind = "ok"
    /\ DictKeys(result.d) = <<calls[1].request.party, calls[3].request.party>>

\* =========================================================================
\* calculate_sacc_loans, step 1: one transaction of one group per step
\* =========================================================================

MaxGroups == 2

\* Z: a credit tag on a negative amount, a non-dict, then 299.50, then 800
GroupZ ==
    Group("Z", List(<<Credit(-50000), NonDict, Credit(299500), Credit(800000)>>))
\* Z again, with nothing the loop records
GroupZDebit ==
    Group("Z", List(<<Tx(Num(900000), <<Tag("debit")>>), Credit(-50000)>>))
\* Z again, a single drawdown
GroupZ125 == Group("Z", List(<<Credit(125000)>>))
GroupY ==
    Group("Y", List(<<Tx(Num(900000), <<NonDict, Tag("debit")>>), Credit(300000),
                      Credit(250000)>>))
\* credit tags on an amount given as text and on a transaction without amount
GroupU ==
    Group("U", List(<<Tx(Str(<<"4", "0", "0">>), <<Tag("credit")>>),
                      Tx(Missing, <<Tag("credit")>>), Credit(400000)>>))
\* transactions still JSON text
GroupW == Group("W", Text(<<LBracket, Obj(Credit(1000000)), RBracket>>))
\* JSON text that does not decode
GroupV == Group("V", Text(<<LBracket, Obj(Credit(500000))>>))

GroupPool == {GroupZ, GroupZDebit, GroupZ125, GroupY, GroupU, GroupW, GroupV}

InitScan ==
    /\ pc = "groups"
    /\ transaction_groups \in SeqsUpTo(GroupPool, MaxGroups)
    /\ statement_analysis = <<Entry("SACC Loans", <<>>, transaction_groups)>>
    /\ category_totals = initialize_category_totals
    /\ decision_metrics = <<>> /\ bank_accounts = <<>>
    /\ transactions = None /\ counterparty = None
    /\ sacc_results = <<>> /\ sacc_totals = <<>> /\ calls = <<>>
    /\ IdleLoop /\ IdleOutputs
    /\ result = None

\* lines 120-129: the next group, its counterparty and its transactions
ScanGroup ==
    /\ pc = "groups" /\ transaction_groups # <<>>
    /\ LET group == Head(transaction_groups)
           decoded == GroupTransactions(group)
       IN  /\ counterparty' = group.name
           /\ IF decoded.ok
              THEN /\ transactions' = List(decoded.items)
                   /\ i' = 1
                   /\ pc' = "transactions"
              ELSE /\ transactions' = group.transactions
                   /\ UNCHANGED <<i, pc>>
    /\ transaction_groups' = Tail(transaction_groups)
    /\ UNCHANGED <<category_totals, statement_analysis, decision_metrics, rent_found,
                   living_expenses_total, sacc_results, sacc_totals, calls,
                   bank_accounts, all_analyses, all_outputs,
                   centrelink_from_statement, raw_data, saved_file, fetched, result>>

\* lines 131-145: one iteration of the loop over the group's transactions
ScanTransaction ==
    /\ pc = "transactions" /\ i <= Len(transactions.items)
    /\ IF Records(transactions.items[i])
       THEN /\ sacc_results' =
                  DictSet(sacc_results, counterparty,
                          GetOr0(transactions.items[i].amount).v)
            /\ pc' = "groups"
            /\ UNCHANGED i
       ELSE /\ i' = i + 1
            /\ UNCHANGED <<sacc_results, pc>>
    /\ UNCHANGED <<transaction_groups, counterparty, category_totals,
                   statement_analysis, decision_metrics, rent_found,
                   living_expenses_total, sacc_totals, calls, bank_accounts,
                   all_analyses, transactions, all_outputs,
                   centrelink_from_statement, raw_data, saved_file, fetched, result>>

\* line 131: the group's transactions are exhausted
ScanExhausted ==
    /\ pc = "transactions" /\ i > Len(transactions.items)
    /\ pc' = "groups"
    /\ UNCHANGED <<transaction_groups, counterparty, category_totals,
                   statement_analysis, decision_metrics, i, rent_found,
                   living_expenses_total, sacc_results, sacc_totals, calls,
                   bank_accounts, all_analyses, transactions, all_outputs,
                   centrelink_from_statement, raw_data, saved_file, fetched, result>>

\* line 147: step 1 is over
ScanEnd ==
    /\ pc = "groups" /\ transaction_groups = <<>>
    /\ pc' = "done"
    /\ UNCHANGED <<transaction_groups, counterparty, category_totals,
                   statement_analysis, decision_metrics, i, rent_found,
                   living_expenses_total, sacc_results, sacc_totals, calls,
                   bank_accounts, all_analyses, transactions, all_outputs,
                   centrelink_from_statement, raw_data, saved_file, fetched, result>>

NextScan ==
    \/ ScanGroup
    \/ ScanTransaction
    \/ ScanExhausted
    \/ ScanEnd

SpecScan == InitScan /\ [][NextScan]_vars

\* the k-th transaction of the current group carries a credit tag
CreditTagged(k) ==
    /\ transactions.items[k].kind = "dict"
    /\ \E t \in 1..Len(transactions.items[k].tags) :
          transactions.items[k].tags[t] = Tag("credit")

\* ... and its amount is a number above zero
PositiveAmount(k) ==
    /\ transactions.items[k].amount.kind = "num"
    /\ transactions.items[k].amount.v > 0

CreditPositions ==
    {k \in 1..Len(transactions.items) : CreditTagged(k)}

DrawdownPositions ==
    {k \in 1..Len(transactions.items) : CreditTagged(k) /\ PositiveAmount(k)}

First(S) == CHOOSE k \in S : \A h \in S : k <= h

\* the scan of the current group's transactions has ended
Scanned == pc \in {"groups", "done"} /\ transactions.kind = "list"

\* The statement of C11 as written: once a group that has a credit-tagged
\* transaction is scanned, the scan stopped at the first credit-tagged
\* transaction and its amount is the counterparty's representative amount.
C11_FirstCreditTagged ==
    (Scanned /\ CreditPositions # {}) =>
        /\ i = First(CreditPositions)
        /\ DictHas(sacc_results, counterparty)
        /\ Num(DictGet(sacc_results, counterparty)) = transactions.items[i].amount

\* C11 (amended): in step 1 of calculate_sacc_loans the representative amount
\* of a group's counterparty is the amount of the first transaction of the
\* group, in list order, that carries a credit tag and whose amount is a
\* number above zero.  The scan never passes such a transaction, it stops
\* there, and sacc_results changes at no other point, so no later transaction
\* of the group determines or changes the amount; a group without such a
\* transaction is scanned to its end and records nothing.
C11_FirstPositiveCredit ==
    /\ [](/\ pc = "transactions" =>
                \A k \in DrawdownPositions : i <= k
          /\ (Scanned /\ DrawdownPositions # {}) =>
                /\ i = First(DrawdownPositions)
                /\ DictHas(sacc_results, counterparty)
                /\ Num(DictGet(sacc_results, counterparty))
                      = transactions.items[i].amount
          /\ (Scanned /\ DrawdownPositions = {}) =>
                i = Len(transactions.items) + 1)
    /\ [][sacc_results' # sacc_results =>
              /\ pc = "transactions" /\ pc' = "groups"
              /\ DrawdownPositions # {} /\ i = First(DrawdownPositions) /\ i' = i
              /\ sacc_results' = DictSet(sacc_results, counterparty,
                                         transactions.items[i].amount.v)]_vars

\* group Z is scanned: its first credit-tagged transaction has amount -50,
\* the scan stopped at the third (299.50), which is the recorded amount, and
\* a credit of 800 follows it
C11_Witness ==
    /\ pc = "groups" /\ transactions.kind = "list" /\ counterparty = "Z"
    /\ Len(transactions.items) = 4 /\ i = 3
    /\ CreditTagged(1) /\ ~PositiveAmount(1)
    /\ CreditTagged(4) /\ PositiveAmount(4)
    /\ DictHas(sacc_results, "Z") /\ DictGet(sacc_results, "Z") = 299500

\* =========================================================================
\* categorize_data, one decision metric per step
\* =========================================================================

MaxMetrics == 3

Metric(name, value) == [name |-> name, value |-> value]

RentMonthly == Metric("Rent - Monthly", Str(<<"$", "5", "0", "0">>))
Groceries == Metric("Groceries - Monthly", Str(<<"$", "1", "0", "0">>))
Utilities == Metric("Utilities - Monthly", Num(50500))
Furniture ==
    Metric("Furniture - Monthly", Str(<<"$", "2", "0", "0", " ", OnceOff>>))
InsuranceMonthly == Metric("Insurance - Monthly", Str(<<"$", "3", "0">>))
WagesMonthly == Metric("Wages - Monthly", Str(<<"$", "2", "0", "0", "0">>))
CentrelinkMonthly == Metric("Centrelink - Monthly", Str(<<"$", "6", "0", "0">>))
SaccMonthly == Metric("SACC Loans - Monthly", Str(<<"$", "8", "0">>))
AllLoansMonthly == Metric("All Loans - Monthly", Str(<<"$", "7", "5">>))
Unknown == Metric("Other - Monthly", Str(<<"N", "/", "A">>))

MetricPool ==
    {RentMonthly, Groceries, Utilities, Furniture, InsuranceMonthly, WagesMonthly,
     CentrelinkMonthly, SaccMonthly, AllLoansMonthly, Unknown}

StatementPool == {<<>>, <<Centrelink500, Rent400>>, <<GamblingBad>>}

InitCategorize ==
    /\ pc = "categorize"
    /\ decision_metrics \in SeqsUpTo(MetricPool, MaxMetrics)
    /\ statement_analysis \in StatementPool
    /\ category_totals = initialize_category_totals
    /\ bank_accounts = <<>> /\ transactions = <<>>
    /\ IdleLoop /\ IdleSacc /\ IdleOutputs
    /\ result = None

\* lines 249-256; the statement lists of this run hold no SACC entry, so no
\* loan-calculator request is made
CategorizeBegin ==
    /\ pc = "categorize"
    /\ LET acc == accumulate_metrics_from_statement_analysis(
                      statement_analysis, category_totals, <<>>)
       IN  /\ acc.exc = "none"
           /\ category_totals' = acc.ct
           /\ centrelink_from_statement' = acc.ct["Centrelink"]
    /\ living_expenses_total' = 0
    /\ rent_found' = FALSE
    /\ i' = 1
    /\ pc' = "metrics"
    /\ UNCHANGED <<transaction_groups, counterparty, statement_analysis, fetched, decision_metrics, sacc_results, sacc_totals,
                   calls, bank_accounts, all_analyses, transactions, all_outputs,
                   raw_data, saved_file, result>>

\* line 249 raises
CategorizeRaise ==
    /\ pc = "categorize"
    /\ LET acc == accumulate_metrics_from_statement_analysis(
                      statement_analysis, category_totals, <<>>)
       IN  /\ acc.exc # "none"
           /\ category_totals' = acc.ct
           /\ result' = [kind |-> "raised", exc |-> acc.exc]
    /\ pc' = "raised"
    /\ UNCHANGED <<transaction_groups, counterparty, statement_analysis, fetched, decision_metrics, i, rent_found,
                   living_expenses_total, sacc_results, sacc_totals, calls,
                   bank_accounts, all_analyses, transactions, all_outputs,
                   centrelink_from_statement, raw_data, saved_file>>

\* lines 258-286 for the i-th metric
CategorizeMetric ==
    /\ pc = "metrics" /\ i <= Len(decision_metrics)
    /\ LET st == CategorizeStep(living_expenses_total, rent_found, decision_metrics[i])
       IN  /\ living_expenses_total' = st.total
           /\ rent_found' = st.rent_found
    /\ i' = i + 1
    /\ UNCHANGED <<transaction_groups, counterparty, pc, category_totals, statement_analysis, fetched, decision_metrics,
                   sacc_results, sacc_totals, calls, bank_accounts, all_analyses,
                   transactions, all_outputs, centrelink_from_statement, raw_data,
                   saved_file, result>>

\* lines 289-292
CategorizeEnd ==
    /\ pc = "metrics" /\ i > Len(decision_metrics)
    /\ category_totals' =
          Put(Put(category_totals, "Living Expenses", LivingExpenses(living_expenses_total)),
              "Centrelink", centrelink_from_statement)
    /\ pc' = "done"
    /\ UNCHANGED <<transaction_groups, counterparty, statement_analysis, fetched, decision_metrics, i, rent_found,
                   living_expenses_total, sacc_results, sacc_totals, calls,
                   bank_accounts, all_analyses, transactions, all_outputs,
                   centrelink_from_statement, raw_data, saved_file, fetched, result>>

NextCategorize ==
    \/ CategorizeBegin
    \/ CategorizeRaise
    \/ CategorizeMetric
    \/ CategorizeEnd

SpecCategorize == InitCategorize /\ [][NextCategorize]_vars

\* positions of decision_metrics named "Rent - Monthly"
RentPositions ==
    {k \in 1..Len(decision_metrics) : decision_metrics[k].name = "Rent - Monthly"}

\* C3: the Rent latch is closed when the pass starts, opens at the first
\* entry named "Rent - Monthly" and never closes again; an entry before that
\* first Rent entry, and a "Rent - Monthly" entry itself, leaves the Living
\* Expenses total as it was; so a list with no "Rent - Monthly" entry ends
\* with Living Expenses = 0.0.
C3_RentLatch ==
    /\ [](pc = "metrics" => (rent_found <=> \E k \in RentPositions : k < i))
    /\ [][(pc = "metrics" /\ i' = i + 1) =>
            /\ rent_found => rent_found'
            /\ (~rent_found \/ decision_metrics[i].name = "Rent - Monthly")
                  => living_expenses_total' = living_expenses_total]_vars
    /\ []((pc = "done" /\ RentPositions = {}) => category_totals["Living Expenses"] = 0)

\* a 100-dollar entry before Rent, the Rent entry, then a 50.50 entry: only
\* the last one is in Living Expenses, round(50.5 * 12 / 26, 2) = 23.31
C3_Witness ==
    /\ pc = "done"
    /\ decision_metrics = <<Groceries, RentMonthly, Utilities>>
    /\ category_totals["Living Expenses"] = 23310

\* the value string carries the "(Once off)" marker
MarkedOnceOff(value) ==
    value.kind = "str" /\ \E c \in 1..Len(value.s) : value.s[c] = OnceOff

\* the k-th decision metric comes after the first "Rent - Monthly" entry, has
\* none of the six excluded names and is not marked once-off
Eligible(k) ==
    /\ \E r \in RentPositions : r < k
    /\ decision_metrics[k].name \notin
          {"Rent - Monthly", "Insurance - Monthly", "Wages - Monthly",
           "Centrelink - Monthly", "SACC Loans - Monthly", "All Loans - Monthly"}
    /\ ~MarkedOnceOff(decision_metrics[k].value)

\* the number a value stands for once "$" is stripped, 0.0 if it is none
ParsedValue(value) ==
    IF value.kind = "num" THEN value.v
    ELSE IF value.kind = "str" /\ ParseFloat(RemoveDollar(value.s)).ok
    THEN ParseFloat(RemoveDollar(value.s)).v
    ELSE 0

RECURSIVE EligibleSum(_)
\* sum of the parsed values of the eligible entries among the first n
EligibleSum(n) ==
    IF n = 0 THEN 0
    ELSE EligibleSum(n - 1)
         + (IF Eligible(n) THEN ParsedValue(decision_metrics[n].value) ELSE 0)

\* C12: while categorize_data walks the decision metrics the running total is
\* the sum of the parsed values of exactly the eligible entries seen so far
\* (after the first "Rent - Monthly" entry, none of the six excluded names, no
\* "(Once off)" in the value string), an eligible entry that is not numeric
\* after stripping "$" adding 0.0; every other entry leaves the total as it
\* was; and at the end Living Expenses = round((total * 12) / 26, 2).
C12_LivingExpenses ==
    /\ [](pc = "metrics" => living_expenses_total = EligibleSum(i - 1))
    /\ [][(pc = "metrics" /\ i' = i + 1) =>
            /\ ~Eligible(i) => living_expenses_total' = living_expenses_total
            /\ (Eligible(i) /\ decision_metrics[i].value = Str(<<"N", "/", "A">>))
                  => living_expenses_total' = living_expenses_total]_vars
    /\ [](pc = "done" =>
            category_totals["Living Expenses"]
               = Round2Frac(EligibleSum(Len(decision_metrics)) * 12, 26))

\* Rent, then an eligible entry worth "N/A" (adds 0.0), then "$100":
\* Living Expenses = round(100 * 12 / 26, 2) = 46.15
C12_Witness ==
    /\ pc = "done"
    /\ decision_metrics = <<RentMonthly, Unknown, Groceries>>
    /\ living_expenses_total = 100000
    /\ category_totals["Living Expenses"] = 46150

\* =========================================================================
\* parse_statement_analysis, one account record per step
\* =========================================================================

MaxAccounts == 3

Account(holder, fragment) == [account_holder |-> holder, statementAnalysis |-> fragment]

AccountAB ==
    Account("Ann", Text(<<LBracket, Obj(Centrelink500), Comma, Obj(Rent400), RBracket>>))
AccountC == Account("Ann", Text(<<LBracket, Obj(Wages1000), RBracket>>))
AccountEmpty == Account("Ann", Text(<<LBracket, RBracket>>))
AccountNoKey == Account("Ann", Missing)
\* malformed: the closing bracket is missing
AccountTruncated ==
    Account("Ann", Text(<<LBracket, Obj(Gambling1200), Comma, Obj(Rent200)>>))
\* malformed: a trailing comma
AccountTrailingComma ==
    Account("Ann", Text(<<LBracket, Obj(Rent200), Comma, RBracket>>))
\* well-formed, but an object and not a list
AccountObject == Account("Ann", Text(<<Obj(Rent200)>>))

AccountPool ==
    {AccountAB, AccountC, AccountEmpty, AccountNoKey, AccountTruncated,
     AccountTrailingComma, AccountObject}

InitParse ==
    /\ pc = "parse"
    /\ bank_accounts \in SeqsUpTo(AccountPool, MaxAccounts)
    /\ category_totals = initialize_category_totals
    /\ statement_analysis = <<>> /\ decision_metrics = <<>> /\ transactions = <<>>
    /\ i = 1 /\ rent_found = FALSE /\ living_expenses_total = 0
    /\ IdleSacc /\ IdleOutputs
    /\ result = None

\* lines 59-67 for the i-th account
ParseNextAccount ==
    /\ pc = "parse" /\ i <= Len(bank_accounts)
    /\ all_analyses' = ParseAccount(all_analyses, bank_accounts[i])
    /\ i' = i + 1
    /\ UNCHANGED <<transaction_groups, counterparty, pc, category_totals, statement_analysis, fetched, decision_metrics,
                   rent_found, living_expenses_total, sacc_results, sacc_totals,
                   calls, bank_accounts, transactions, all_outputs,
                   centrelink_from_statement, raw_data, saved_file, fetched, result>>

\* line 69
ParseReturn ==
    /\ pc = "parse" /\ i > Len(bank_accounts)
    /\ result' = [kind |-> "list", items |-> all_analyses]
    /\ pc' = "done"
    /\ UNCHANGED <<transaction_groups, counterparty, category_totals, statement_analysis, fetched, decision_metrics, i,
                   rent_found, living_expenses_total, sacc_results, sacc_totals,
                   calls, bank_accounts, all_analyses, transactions, all_outputs,
                   centrelink_from_statement, raw_data, saved_file>>

NextParse ==
    \/ ParseNextAccount
    \/ ParseReturn

SpecParse == InitParse /\ [][NextParse]_vars

\* what each fragment of the pool holds when read as JSON by hand: the
\* entries of a well-formed list, nothing otherwise
FragmentEntries(account) ==
    CASE account = AccountAB -> <<Centrelink500, Rent400>>
      [] account = AccountC -> <<Wages1000>>
      [] OTHER -> <<>>

RECURSIVE Concatenation(_)
\* the fragments' entries of the first n accounts, in account order
Concatenation(n) ==
    IF n = 0 THEN <<>>
    ELSE Concatenation(n - 1) \o FragmentEntries(bank_accounts[n])

\* C8: the returned list is the concatenation, in account order, of the
\* lists parsed from the well-formed fragments; a malformed fragment adds
\* nothing and neither aborts nor reorders the accounts after it.
C8_PartialFailureIsolation ==
    /\ pc = "parse" => all_analyses = Concatenation(i - 1)
    /\ pc = "done" => result.items = Concatenation(Len(bank_accounts))

\* three accounts, the second malformed: the first and third both contribute
C8_Witness ==
    /\ pc = "done"
    /\ bank_accounts = <<AccountAB, AccountTruncated, AccountC>>
    /\ result.items = <<Centrelink500, Rent400, Wages1000>>

\* =========================================================================
\* main: the batch over application_id, one loan id per step
\* =========================================================================

MaxLoans == 3

\* line 10, with room for more ids
application_id == [k \in 1..MaxLoans |-> 22018 + k]

Document(metrics, accounts) ==
    [kind |-> "dict", illionCustomerInfo |-> [decisionMetrics |-> metrics],
     illionBankAccount |-> accounts]

MetricsText ==
    Text(<<LBracket, Obj(RentMonthly), Comma, Obj(Groceries), RBracket>>)

DocGood == Document(MetricsText, List(<<AccountAB, AccountTruncated>>))
DocSacc ==
    Document(Missing,
             List(<<Account("Bob", Text(<<LBracket, Obj(SaccX250), RBracket>>))>>))
\* decisionMetrics that does not decode
DocBadMetrics == Document(Text(<<LBracket, Obj(Groceries)>>), List(<<AccountC>>))
DocNoAccountKey == Document(MetricsText, Missing)
\* "illionBankAccount": []
DocNoAccounts == Document(MetricsText, List(<<>>))
DocumentPool ==
    {DocGood, DocSacc, DocBadMetrics, DocNoAccountKey, DocNoAccounts}

InitMain ==
    /\ pc = "main"
    /\ i = 1
    /\ all_outputs = <<>>
    /\ raw_data = None /\ saved_file = None /\ fetched = <<>>
    /\ category_totals = initialize_category_totals
    /\ IdleInputs /\ IdleSacc
    /\ rent_found = FALSE /\ living_expenses_total = 0
    /\ all_analyses = <<>> /\ centrelink_from_statement = 0
    /\ result = None

\* lines 350-353: fetch_data returns None and the id is skipped
MainFetchFails ==
    /\ pc = "main" /\ i <= Len(application_id)
    /\ raw_data' = None
    /\ i' = i + 1
    /\ UNCHANGED <<transaction_groups, counterparty, pc, category_totals, statement_analysis, decision_metrics,
                   rent_found, living_expenses_total, sacc_results, sacc_totals,
                   calls, bank_accounts, all_analyses, transactions, all_outputs,
                   centrelink_from_statement, saved_file, fetched, result>>

\* lines 350-351: fetch_data returns a document
MainFetch ==
    /\ pc = "main" /\ i <= Len(application_id)
    /\ raw_data' \in DocumentPool
    /\ fetched' = Append(fetched, application_id[i])
    /\ pc' = "process"
    /\ UNCHANGED <<transaction_groups, counterparty, category_totals, statement_analysis, decision_metrics, i,
                   rent_found, living_expenses_total, sacc_results, sacc_totals,
                   calls, bank_accounts, all_analyses, transactions, all_outputs,
                   centrelink_from_statement, saved_file, result>>

\* the loan-calculator answers to the requests the document gives rise to
Answers(doc) ==
    {api \in SeqsUpTo(ResponsePool, 1) :
        Len(api) = Len(SaccResults(<<>>, parse_statement_analysis(BankAccounts(doc))))}

\* lines 355-362: the document is processed and its output appended
MainProcess ==
    /\ pc = "process"
    /\ \E api \in Answers(raw_data) :
          /\ ProcessLoan(raw_data, application_id[i], api).exc = "none"
          /\ all_outputs' =
                Append(all_outputs, ProcessLoan(raw_data, application_id[i], api).output)
    /\ i' = i + 1
    /\ pc' = "main"
    /\ UNCHANGED <<transaction_groups, counterparty, category_totals, statement_analysis, decision_metrics,
                   rent_found, living_expenses_total, sacc_results, sacc_totals,
                   calls, bank_accounts, all_analyses, transactions,
                   centrelink_from_statement, raw_data, saved_file, fetched, result>>

\* lines 355-361: an exception no handler catches leaves main
MainAbort ==
    /\ pc = "process"
    /\ \E api \in Answers(raw_data) :
          /\ ProcessLoan(raw_data, application_id[i], api).exc # "none"
          /\ result' = [kind |-> "raised",
                        exc |-> ProcessLoan(raw_data, application_id[i], api).exc]
    /\ pc' = "aborted"
    /\ UNCHANGED <<transaction_groups, counterparty, category_totals, statement_analysis, decision_metrics, i,
                   rent_found, living_expenses_total, sacc_results, sacc_totals,
                   calls, bank_accounts, all_analyses, transactions, all_outputs,
                   centrelink_from_statement, raw_data, saved_file, fetched>>

\* lines 364, 339-343
MainSave ==
    /\ pc = "main" /\ i > Len(application_id)
    /\ saved_file' = [kind |-> "file", lines |-> all_outputs]
    /\ pc' = "done"
    /\ UNCHANGED <<transaction_groups, counterparty, category_totals, statement_analysis, decision_metrics, i,
                   rent_found, living_expenses_total, sacc_results, sacc_totals,
                   calls, bank_accounts, all_analyses, transactions, all_outputs,
                   centrelink_from_statement, raw_data, fetched, result>>

\* lines 344-345: the IOError is logged
MainSaveFails ==
    /\ pc = "main" /\ i > Len(application_id)
    /\ pc' = "done"
    /\ UNCHANGED <<transaction_groups, counterparty, category_totals, statement_analysis, decision_metrics, i,
                   rent_found, living_expenses_total, sacc_results, sacc_totals,
                   calls, bank_accounts, all_analyses, transactions, all_outputs,
                   centrelink_from_statement, raw_data, saved_file, fetched, result>>

NextMain ==
    \/ MainFetchFails
    \/ MainFetch
    \/ MainProcess
    \/ MainAbort
    \/ MainSave
    \/ MainSaveFails

SpecMain == InitMain /\ [][NextMain]_vars

\* C9: main() runs to completion over the whole list of loan ids: no error
\* raised while processing one id is fatal to the batch; an id whose fetch
\* fails is skipped, and every id whose document was fetched has one output
\* appended, in id order, before the outputs are saved.
C9_BatchAlwaysCompletes ==
    /\ pc # "aborted"
    /\ pc = "main" => [k \in 1..Len(all_outputs) |-> all_outputs[k].loan_id] = fetched
    /\ pc = "done" => [k \in 1..Len(all_outputs) |-> all_outputs[k].loan_id] = fetched

====
